---------------------------- MODULE Spec2Model ----------------------------
(***************************************************************************)
(* The two scripts of and_sq_crash_data as state machines.                 *)
(*                                                                         *)
(*   fetch_crash_data.py   pages through the remote dataset and writes     *)
(*                         crash_data.json                                 *)
(*   json_to_shapefile.py  loads crash_data.json, keeps the records within *)
(*                         the buffer around the reference point and       *)
(*                         writes the shapefile                            *)
(*                                                                         *)
(* Each script is a straight-line program; pc is the statement it is at.   *)
(***************************************************************************)
EXTENDS Integers, Sequences, FiniteSets, TLC

VARIABLES
    pc,            \* the statement the running script is at
    dataset,       \* remote: the records matching date_filter, in $order
    limit,         \* fetch_crash_data.py:24
    offset,        \* fetch_crash_data.py:25
    all_records,   \* fetch_crash_data.py:19
    response,      \* fetch_crash_data.py:45, the last Response
    file,          \* contents of crash_data.json (<<>>: no such file)
    stdout,        \* what the running script has printed
    requests,      \* history: the params of every requests.get of this run
    responses,     \* history: the Response to each of them
    appended,      \* history: number of pages extended into all_records
    run,           \* history: which run of the Fetcher this is
    prev,          \* history: how the previous run of the Fetcher ended
    df,            \* json_to_shapefile.py:23
    geometry,      \* json_to_shapefile.py:34
    gdf,           \* json_to_shapefile.py:39
    gdf_projected, \* json_to_shapefile.py:48
    buffer_300ft,  \* json_to_shapefile.py:57
    gdf_filtered,  \* json_to_shapefile.py:62 and 67
    shp            \* contents of crash_records_extract/crash_data.shp

fetcherVars == <<dataset, limit, offset, all_records, response, requests,
                 responses, appended, run, prev>>
filterVars == <<df, geometry, gdf, gdf_projected, buffer_300ft, gdf_filtered, shp>>
vars == <<pc, file, stdout, fetcherVars, filterVars>>

(***************************************************************************)
(* Bounds of the model.                                                    *)
(***************************************************************************)
MaxRecords == 4     \* the remote dataset holds 0..MaxRecords matching records
MaxLimit == 3       \* page sizes 1..MaxLimit
MaxRuns == 2        \* runs of the Fetcher in SpecRerun
MaxRows == 2        \* records in the crash_data.json the Filter stage loads

Min(a, b) == IF a < b THEN a ELSE b

(***************************************************************************)
(* json.dump(all_records, f, indent=2): one line per array bracket and one *)
(* per record, the records indented by 2 and separated by commas; the      *)
(* empty list is written as the one line "[]".                             *)
(***************************************************************************)
JsonLine(indent, text, rec, comma) ==
    [indent |-> indent, text |-> text, rec |-> rec, comma |-> comma]

JsonDumpNoEmptyCase(records) ==
    <<JsonLine(0, "[", <<>>, FALSE)>>
        \o [i \in 1..Len(records) |->
                JsonLine(2, "{}", <<records[i]>>, i < Len(records))]
        \o <<JsonLine(0, "]", <<>>, FALSE)>>

JsonDump(records) ==
    IF records = <<>>
    THEN <<JsonLine(0, "[]", <<>>, FALSE)>>
    ELSE <<JsonLine(0, "[", <<>>, FALSE)>>
            \o [i \in 1..Len(records) |->
                    JsonLine(2, "{}", <<records[i]>>, i < Len(records))]
            \o <<JsonLine(0, "]", <<>>, FALSE)>>

\* open("crash_data.json", "w"): the old contents are discarded
OpenAppend(old, new) == old \o new

OpenWrite(old, new) == new

(***************************************************************************)
(* The remote service.  It holds the records matching $where in the order  *)
(* of $order (crash_timestamp_ct DESC; a record is modelled by its sort    *)
(* key, so the order is strict) and answers a request with a status and,   *)
(* on 200, the records $offset+1 .. $offset+$limit of that order.          *)
(***************************************************************************)
StatusCodes == {200, 404, 500}

Descending(n) == [i \in 1..n |-> n + 1 - i]

Page(data, params) ==
    SubSeq(data, params.offset + 1, Min(params.offset + params.limit, Len(data)))

NoResponse == [status_code |-> 0, json |-> <<>>]

(***************************************************************************)
(* fetch_crash_data.py                                                     *)
(***************************************************************************)
\* line 65: if not records
ExhaustedShortPage(records, lim) == Len(records) < lim

Exhausted(records, lim) == records = <<>>

\* line 71: all_records.extend(records)
ExtendReplace(all, records) == records

Extend(all, records) == all \o records

\* line 79: offset += limit
NextOffsetByLen(off, lim, records) == off + Len(records)

NextOffset(off, lim, records) == off + lim

\* line 54: break leaves the while loop for the file write
AfterErrorRetry == "request"

AfterError == "write"

NoPrev == [responses |-> <<>>, file |-> <<>>, all_records |-> <<>>, stdout |-> <<>>]

FilterIdle ==
    /\ df = <<>>
    /\ geometry = <<>>
    /\ gdf = [crs |-> "", rows |-> <<>>]
    /\ gdf_projected = [crs |-> "", rows |-> <<>>]
    /\ buffer_300ft = [x |-> 0, y |-> 0, radius |-> 0]
    /\ gdf_filtered = [crs |-> "", rows |-> <<>>]
    /\ shp = <<>>

\* lines 19-25, against a remote dataset of n records and with page size l
Init ==
    /\ \E n \in 0..MaxRecords : dataset = Descending(n)
    /\ limit \in 1..MaxLimit
    /\ pc = "request"
    /\ offset = 0
    /\ all_records = <<>>
    /\ response = NoResponse
    /\ file = <<>>
    /\ stdout = <<>>
    /\ requests = <<>>
    /\ responses = <<>>
    /\ appended = 0
    /\ run = 1
    /\ prev = NoPrev
    /\ FilterIdle

\* lines 35-45: params = {...}; response = requests.get(url, params=params)
Request ==
    /\ pc = "request"
    /\ LET params == [limit |-> limit, offset |-> offset] IN
       \E status \in StatusCodes :
          LET r == [status_code |-> status,
                    json |-> IF status = 200 THEN Page(dataset, params) ELSE <<>>]
          IN /\ response' = r
             /\ requests' = Append(requests, params)
             /\ responses' = Append(responses, r)
    /\ pc' = "status"
    /\ UNCHANGED <<dataset, limit, offset, all_records, file, stdout, appended,
                   run, prev, filterVars>>

\* lines 50-54: a status other than 200 is printed and ends the loop
StatusError ==
    /\ pc = "status"
    /\ response.status_code # 200
    /\ stdout' = Append(stdout, [msg |-> "Error", n |-> response.status_code])
    /\ pc' = AfterError
    /\ UNCHANGED <<dataset, limit, offset, all_records, response, file, requests,
                   responses, appended, run, prev, filterVars>>

\* lines 60-66: records = response.json(); if not records: break
EmptyPage ==
    /\ pc = "status"
    /\ response.status_code = 200
    /\ Exhausted(response.json, limit)
    /\ pc' = "write"
    /\ UNCHANGED <<dataset, limit, offset, all_records, response, file, stdout,
                   requests, responses, appended, run, prev, filterVars>>

\* lines 60-79: the page is appended, progress printed, the offset advanced
AppendPage ==
    /\ pc = "status"
    /\ response.status_code = 200
    /\ ~Exhausted(response.json, limit)
    /\ all_records' = Extend(all_records, response.json)
    /\ stdout' = Append(stdout, [msg |-> "Fetched", n |-> Len(all_records')])
    /\ offset' = NextOffset(offset, limit, response.json)
    /\ appended' = appended + 1
    /\ pc' = "request"
    /\ UNCHANGED <<dataset, limit, response, file, requests, responses, run, prev,
                   filterVars>>

\* lines 85-88: with open("crash_data.json", "w") as f: json.dump(...)
WriteFile ==
    /\ pc = "write"
    /\ file' = OpenWrite(file, JsonDump(all_records))
    /\ pc' = "report"
    /\ UNCHANGED <<stdout, fetcherVars, filterVars>>

\* line 91: print(f"Saved {len(all_records)} total records to crash_data.json")
Report ==
    /\ pc = "report"
    /\ stdout' = Append(stdout, [msg |-> "Saved", n |-> Len(all_records)])
    /\ pc' = "done"
    /\ UNCHANGED <<file, fetcherVars, filterVars>>

Next ==
    \/ Request
    \/ StatusError
    \/ EmptyPage
    \/ AppendPage
    \/ WriteFile
    \/ Report

Spec == Init /\ [][Next]_vars

\* The script runs to its end: no statement of it blocks forever once every
\* request is answered.
FairSpec == Spec /\ WF_vars(Next)

\* The script is run again: lines 19-25 start it from nothing; the remote
\* dataset and crash_data.json are what the previous run left.
Restart ==
    /\ pc = "done"
    /\ run < MaxRuns
    /\ prev' = [responses |-> responses, file |-> file,
                all_records |-> all_records, stdout |-> stdout]
    /\ run' = run + 1
    /\ pc' = "request"
    /\ offset' = 0
    /\ all_records' = <<>>
    /\ response' = NoResponse
    /\ stdout' = <<>>
    /\ requests' = <<>>
    /\ responses' = <<>>
    /\ appended' = 0
    /\ UNCHANGED <<dataset, limit, file, filterVars>>

NextRerun ==
    \/ Request
    \/ StatusError
    \/ EmptyPage
    \/ AppendPage
    \/ WriteFile
    \/ Report
    \/ Restart

SpecRerun == Init /\ [][NextRerun]_vars


(***************************************************************************)
(* json_to_shapefile.py                                                    *)
(*                                                                         *)
(* A record of crash_data.json is [crash_id, longitude, latitude]; a       *)
(* coordinate is a JSON number (in microdegrees), null, or a string that   *)
(* is no number.                                                           *)
(***************************************************************************)
Num(v) == [kind |-> "num", v |-> v]
Null == [kind |-> "null", v |-> 0]
NaN == [kind |-> "nan", v |-> 0]
Str == [kind |-> "str", v |-> 0]

\* line 43: reference_point = Point(-97.717035, 30.349979), in microdegrees
REF_LON == -97717035
REF_LAT == 30349979

\* line 57: ref_point_gdf.buffer(500)
BufferRadius == 500

Abs(a) == IF a < 0 THEN -a ELSE a

\* The longitudes and latitudes the records of the input are drawn from: the
\* reference point's, two at 300 and 630 ft east of it, two at 400 and 500 ft
\* north of it, null and a non-numeric string.
LonVals == {Num(REF_LON), Num(REF_LON + 951), Num(REF_LON + 1999), Null, Str}
LatVals == {Num(REF_LAT), Num(REF_LAT + 1099), Num(REF_LAT + 1374), Null, Str}

\* the records whose coordinates are the pairs coords[1], coords[2], ...
RecordSet(coords) ==
    [i \in DOMAIN coords |->
        [crash_id |-> i, longitude |-> coords[i][1], latitude |-> coords[i][2]]]

\* line 23: pd.read_json: the array's records become the rows 0..n-1 of the
\* DataFrame, and a null becomes NaN
FromJson(c) == IF c.kind = "null" THEN NaN ELSE c

JsonRecords(f) ==
    IF Len(f) = 1 THEN <<>> ELSE [i \in 1..(Len(f) - 2) |-> f[i + 1].rec[1]]

ReadJson(f) ==
    LET recs == JsonRecords(f) IN
    [i \in 1..Len(recs) |->
        [index |-> i - 1,
         attrs |-> [crash_id |-> recs[i].crash_id,
                    longitude |-> FromJson(recs[i].longitude),
                    latitude |-> FromJson(recs[i].latitude)]]]

\* line 34: Point(row["longitude"], row["latitude"]) raises on a coordinate
\* that is no number; a NaN coordinate gives a point with no location
PointRaises(row) ==
    row.attrs.longitude.kind = "str" \/ row.attrs.latitude.kind = "str"

Point(lon, lat) ==
    IF lon.kind = "num" /\ lat.kind = "num"
    THEN [kind |-> "num", x |-> lon.v, y |-> lat.v]
    ELSE [kind |-> "nan", x |-> 0, y |-> 0]

\* lines 48, 52: to_crs("EPSG:2277"), Texas Central in US survey feet, as its
\* linearisation around the reference point: false easting 2296583 ft at the
\* central meridian 100.333333 W, false northing 9842500 ft at the latitude
\* of origin 29.666667 N, 0.315 ft per microdegree of longitude and 0.364 ft
\* per microdegree of latitude, to the whole foot.
ToStatePlane(p) ==
    IF p.kind = "num"
    THEN [kind |-> "num",
          x |-> 2296583 + ((p.x + 100333333) * 315) \div 1000,
          y |-> 9842500 + ((p.y - 29666667) * 364) \div 1000]
    ELSE p

\* line 67: to_crs("EPSG:4326"), the inverse, to the whole microdegree
ToWgs84(p) ==
    IF p.kind = "num"
    THEN [kind |-> "num",
          x |-> ((p.x - 2296583) * 1000) \div 315 - 100333333,
          y |-> ((p.y - 9842500) * 1000) \div 364 + 29666667]
    ELSE p

Transform(p, crs) == IF crs = "EPSG:2277" THEN ToStatePlane(p) ELSE ToWgs84(p)

ToCrs(frame, crs) ==
    [crs |-> crs,
     rows |-> [i \in 1..Len(frame.rows) |->
                  [frame.rows[i] EXCEPT !.geometry = Transform(@, crs)]]]

\* line 57: buffer(500) of a point is the polygon of 16 segments per
\* quadrant whose 64 vertices lie on the circle of that radius, at the
\* multiples of pi/32.  EdgeCos[k] is 10000 * cos((2k - 1) * pi / 64), the
\* cosine of the direction of the outward normal of the k-th edge of the
\* first quadrant; the sine of that direction is EdgeCos[17 - k], and every
\* edge lies at radius * cos(pi / 64) from the centre.
EdgeCos == <<9988, 9892, 9700, 9415, 9040, 8577, 8032, 7410,
             6716, 5957, 5141, 4276, 3369, 2430, 1467, 491>>

Buffer(center, radius) == [x |-> center.x, y |-> center.y, radius |-> radius]

\* line 62: within: the point lies in the interior of the polygon, strictly
\* inside every edge (the polygon is symmetric in both axes)
WithinOrOnBoundary(p, buf) ==
    /\ p.kind = "num"
    /\ \A k \in 1..16 :
          Abs(p.x - buf.x) * EdgeCos[k] + Abs(p.y - buf.y) * EdgeCos[17 - k]
              <= buf.radius * EdgeCos[1]

Within(p, buf) ==
    /\ p.kind = "num"
    /\ \A k \in 1..16 :
          Abs(p.x - buf.x) * EdgeCos[k] + Abs(p.y - buf.y) * EdgeCos[17 - k]
              < buf.radius * EdgeCos[1]

\* line 67: the CRS the filtered set is written in
OutputCrs == "EPSG:4326"

\* line 62: the mask that selects the rows of gdf_projected
RowAlways(row) == TRUE

RowWithin(row) == Within(row.geometry, buffer_300ft)

FetcherIdle ==
    /\ dataset = <<>>
    /\ limit = 1
    /\ offset = 0
    /\ all_records = <<>>
    /\ response = NoResponse
    /\ requests = <<>>
    /\ responses = <<>>
    /\ appended = 0
    /\ run = 1
    /\ prev = NoPrev

\* The Filter stage starts on a crash_data.json as json.dump leaves it.
InitFilter ==
    /\ pc = "read_json"
    /\ \E n \in 0..MaxRows :
          \E coords \in [1..n -> LonVals \X LatVals] :
             file = JsonDump(RecordSet(coords))
    /\ stdout = <<>>
    /\ FetcherIdle
    /\ FilterIdle

\* lines 23-28
LoadFrame ==
    /\ pc = "read_json"
    /\ df' = ReadJson(file)
    /\ stdout' = Append(stdout, [msg |-> "Total records", n |-> Len(df')])
    /\ pc' = "geometry"
    /\ UNCHANGED <<file, fetcherVars, geometry, gdf, gdf_projected, buffer_300ft,
                   gdf_filtered, shp>>

\* line 34: geometry = df.apply(lambda row: Point(...), axis=1).  The first
\* row whose Point raises ends the script with a traceback.  What apply and
\* GeoDataFrame make of a frame with no rows and no columns is left open.
BuildGeometry ==
    /\ pc = "geometry"
    /\ \/ /\ \E i \in 1..Len(df) : PointRaises(df[i])
          /\ pc' = "crashed"
          /\ stdout' = Append(stdout, [msg |-> "Traceback", n |-> 0])
          /\ UNCHANGED geometry
       \/ /\ df = <<>>
          /\ pc' = "crashed"
          /\ stdout' = Append(stdout, [msg |-> "Traceback", n |-> 0])
          /\ UNCHANGED geometry
       \/ /\ \A i \in 1..Len(df) : ~PointRaises(df[i])
          /\ geometry' = [i \in 1..Len(df) |->
                            Point(df[i].attrs.longitude, df[i].attrs.latitude)]
          /\ pc' = "make_gdf"
          /\ UNCHANGED stdout
    /\ UNCHANGED <<file, fetcherVars, df, gdf, gdf_projected, buffer_300ft,
                   gdf_filtered, shp>>

\* line 39: gdf = gpd.GeoDataFrame(df, geometry=geometry, crs="EPSG:4326")
MakeGeoFrame ==
    /\ pc = "make_gdf"
    /\ gdf' = [crs |-> "EPSG:4326",
               rows |-> [i \in 1..Len(df) |->
                            [index |-> df[i].index, attrs |-> df[i].attrs,
                             geometry |-> geometry[i]]]]
    /\ pc' = "to_crs"
    /\ UNCHANGED <<file, stdout, fetcherVars, df, geometry, gdf_projected,
                   buffer_300ft, gdf_filtered, shp>>

\* line 48: gdf_projected = gdf.to_crs("EPSG:2277")
Reproject ==
    /\ pc = "to_crs"
    /\ gdf_projected' = ToCrs(gdf, "EPSG:2277")
    /\ pc' = "buffer"
    /\ UNCHANGED <<file, stdout, fetcherVars, df, geometry, gdf, buffer_300ft,
                   gdf_filtered, shp>>

\* lines 43-57: the reference point, reprojected on its own, and its buffer
MakeBuffer ==
    /\ pc = "buffer"
    /\ LET reference_point == Point(Num(REF_LON), Num(REF_LAT))
           ref_point_gdf == Transform(reference_point, "EPSG:2277")
       IN buffer_300ft' = Buffer(ref_point_gdf, BufferRadius)
    /\ pc' = "within"
    /\ UNCHANGED <<file, stdout, fetcherVars, df, geometry, gdf, gdf_projected,
                   gdf_filtered, shp>>

\* lines 62-64: gdf_filtered = gdf_projected[gdf_projected.within(buffer_300ft)]
FilterWithin ==
    /\ pc = "within"
    /\ gdf_filtered' = [crs |-> gdf_projected.crs,
                        rows |-> SelectSeq(gdf_projected.rows, RowWithin)]
    /\ stdout' = Append(stdout, [msg |-> "Crashes within 300ft",
                                 n |-> Len(gdf_filtered'.rows)])
    /\ pc' = "to_wgs84"
    /\ UNCHANGED <<file, fetcherVars, df, geometry, gdf, gdf_projected,
                   buffer_300ft, shp>>

\* line 67: gdf_filtered = gdf_filtered.to_crs("EPSG:4326")
ReprojectBack ==
    /\ pc = "to_wgs84"
    /\ gdf_filtered' = ToCrs(gdf_filtered, OutputCrs)
    /\ pc' = "to_file"
    /\ UNCHANGED <<file, stdout, fetcherVars, df, geometry, gdf, gdf_projected,
                   buffer_300ft, shp>>

\* lines 71-84: the directory is made, the shapefile written, the count printed
ToFile ==
    /\ pc = "to_file"
    /\ shp' = <<[crs |-> gdf_filtered.crs, features |-> gdf_filtered.rows]>>
    /\ stdout' = Append(stdout, [msg |-> "Saved", n |-> Len(gdf_filtered.rows)])
    /\ pc' = "done"
    /\ UNCHANGED <<file, fetcherVars, df, geometry, gdf, gdf_projected,
                   buffer_300ft, gdf_filtered>>

NextFilter ==
    \/ LoadFrame
    \/ BuildGeometry
    \/ MakeGeoFrame
    \/ Reproject
    \/ MakeBuffer
    \/ FilterWithin
    \/ ReprojectBack
    \/ ToFile

SpecFilter == InitFilter /\ [][NextFilter]_vars

(***************************************************************************)
(* Properties of the Fetcher.                                              *)
(***************************************************************************)
RECURSIVE ConcatPages(_)
ConcatPages(rs) ==
    IF rs = <<>> THEN <<>> ELSE rs[1].json \o ConcatPages(Tail(rs))

CeilDiv(a, b) == (a + b - 1) \div b

AllOk == \A i \in 1..Len(responses) : responses[i].status_code = 200
Aborted == \E i \in 1..Len(responses) : responses[i].status_code # 200
LoopExited == pc \in {"write", "report", "done"}
Printed(msg) == \E i \in 1..Len(stdout) : stdout[i].msg = msg
NoDuplicates(s) == \A i, j \in 1..Len(s) : s[i] = s[j] => i = j

\* C1: when the loop exits after only successful responses, all_records is
\* the concatenation of the pages received, and that is the whole ordered
\* dataset: N records, none twice, none missing, for every page size.
C1_PaginationComplete ==
    (LoopExited /\ AllOk) =>
        /\ all_records = ConcatPages(responses)
        /\ all_records = dataset
        /\ Len(all_records) = Len(dataset)
        /\ NoDuplicates(all_records)

C1_Witness ==
    /\ pc = "done"
    /\ AllOk
    /\ Len(dataset) = 3
    /\ limit = 2
    /\ all_records = dataset

\* C2 (as claimed): after a non-success response the partial all_records is
\* neither written to crash_data.json nor reported as the saved total.
C2_PartialNotSaved ==
    Aborted => (file = <<>> /\ ~Printed("Saved"))

\* C3: once a request has returned a non-success status, no further request
\* is issued (no retry, no later offset) and all_records is left as it is.
C3_FailureIsTerminal ==
    [][Aborted => /\ requests' = requests
                  /\ responses' = responses
                  /\ all_records' = all_records
                  /\ pc' # "request"]_vars

C3_Witness ==
    /\ Aborted
    /\ pc = "done"
    /\ Len(all_records) > 0
    /\ Len(requests) = appended + 1

\* C4: against a dataset of zero matching records whose first request
\* succeeds, the Fetcher makes exactly one request (offset 0), keeps
\* all_records empty, never prints an error, and ends having written the
\* file as the empty array and reported 0 saved records.
C4_ZeroMatch ==
    (dataset = <<>> /\ responses # <<>> /\ responses[1].status_code = 200) =>
        /\ Len(requests) = 1
        /\ requests[1].offset = 0
        /\ all_records = <<>>
        /\ ~Printed("Error")
        /\ pc \in {"status", "write", "report", "done"}
        /\ pc \in {"report", "done"} => file = <<JsonLine(0, "[]", <<>>, FALSE)>>
        /\ pc = "done" => stdout = <<[msg |-> "Saved", n |-> 0]>>

C4_Witness ==
    /\ dataset = <<>>
    /\ pc = "done"
    /\ AllOk
    /\ Len(requests) = 1
    /\ file = <<JsonLine(0, "[]", <<>>, FALSE)>>

\* C8: a second run that receives the same responses as the first ends with
\* the same all_records and output and the same file contents; a run starts
\* from offset 0 and an empty all_records, and the file it leaves is the
\* dump of the pages of this run alone.
C8_IdempotentRerun ==
    /\ (run >= 2 /\ pc = "done" /\ responses = prev.responses) =>
            /\ file = prev.file
            /\ all_records = prev.all_records
            /\ stdout = prev.stdout
    /\ requests = <<>> => (offset = 0 /\ all_records = <<>>)
    /\ pc = "done" => file = JsonDump(ConcatPages(responses))

C8_Witness ==
    /\ run = 2
    /\ pc = "done"
    /\ responses = prev.responses
    /\ Len(all_records) >= 2
    /\ file = prev.file

C9_OffsetInv ==
    /\ offset = limit * appended
    /\ offset % limit = 0
    /\ \A i \in 1..Len(requests) :
          requests[i] = [limit |-> limit, offset |-> (i - 1) * limit]
    /\ pc = "status" => requests[Len(requests)].offset = offset
    /\ pc = "request" => Len(requests) = appended

C9_OffsetStep ==
    /\ offset' >= offset
    /\ offset' # offset =>
          /\ offset' = offset + limit
          /\ pc = "status"
          /\ response.status_code = 200
          /\ response.json # <<>>
          /\ all_records' = all_records \o response.json
          /\ appended' = appended + 1
    /\ requests' # requests =>
          requests' = Append(requests, [limit |-> limit, offset |-> offset])
    /\ (pc = "status" /\ (response.status_code # 200 \/ response.json = <<>>)) =>
          offset' = offset

\* C9: the offset is always limit times the number of pages appended, the
\* i-th request carries offset (i-1)*limit, and a step changes the offset
\* only by adding limit while appending a successful non-empty page; an
\* empty page or a non-success response leaves it unchanged.
C9_OffsetInvariant == [](C9_OffsetInv) /\ [][C9_OffsetStep]_vars

C9_Witness ==
    /\ pc = "status"
    /\ appended = 2
    /\ offset = 2 * limit
    /\ Len(requests) = 3
    /\ limit > 1

\* C10 (as claimed): with all responses successful the loop exits after
\* exactly floor(N / L) + 1 requests.
C10_FloorRequestCount ==
    (LoopExited /\ AllOk) =>
        Len(requests) = (Len(dataset) \div limit) + 1

C10_Safety ==
    /\ (LoopExited /\ AllOk) =>
          /\ responses[Len(responses)].json = <<>>
          /\ Len(requests) = CeilDiv(Len(dataset), limit) + 1
    /\ file # <<>> => pc \in {"report", "done"}

C10_ShortPageContinues ==
    (pc = "status" /\ response.status_code = 200 /\ response.json # <<>>) =>
        /\ pc' = "request"
        /\ file' = <<>>

\* C10 (amended): the run always terminates; with all responses successful
\* the loop exits only on an empty page, after exactly ceil(N / L) + 1
\* requests; a non-empty page, short or not, sends the loop to the next
\* request; the file is written only after the loop has exited.
C10_Termination ==
    /\ <>(pc = "done")
    /\ [](C10_Safety)
    /\ [][C10_ShortPageContinues]_vars

C10_Witness ==
    /\ pc = "done"
    /\ AllOk
    /\ Len(dataset) > limit
    /\ Len(dataset) % limit # 0
    /\ Len(requests) = CeilDiv(Len(dataset), limit) + 1

(***************************************************************************)
(* Properties of the Filter stage.                                         *)
(***************************************************************************)
Input == JsonRecords(file)
Invalid(rec) == rec.longitude.kind # "num" \/ rec.latitude.kind # "num"
HasInvalid == \E i \in 1..Len(Input) : Invalid(Input[i])
Filtered == pc \in {"to_wgs84", "to_file", "done"}
RetainedIn(rows, index) == \E j \in 1..Len(rows) : rows[j].index = index
Dist2(p, buf) == (p.x - buf.x) * (p.x - buf.x) + (p.y - buf.y) * (p.y - buf.y)
AtReference(row) ==
    row.attrs.longitude = Num(REF_LON) /\ row.attrs.latitude = Num(REF_LAT)
AtRadius(row) ==
    /\ row.geometry.kind = "num"
    /\ Dist2(row.geometry, buffer_300ft) = buffer_300ft.radius * buffer_300ft.radius
Beyond(row) ==
    /\ row.geometry.kind = "num"
    /\ Dist2(row.geometry, buffer_300ft) > buffer_300ft.radius * buffer_300ft.radius

\* The buffer and the projected geometry as the stage is meant to compute
\* them, from the loaded frame alone.
ExpectedBuffer ==
    Buffer(ToStatePlane(Point(Num(REF_LON), Num(REF_LAT))), BufferRadius)
ExpectedWithin(row) ==
    Within(ToStatePlane(Point(row.attrs.longitude, row.attrs.latitude)),
           ExpectedBuffer)

\* C5: once the filter has run, a record at the reference point is retained,
\* a record farther than the radius from it (in the linear CRS) is not, and
\* a record at exactly the radius is not; the same holds of the features of
\* the written shapefile.
C5_Containment ==
    Filtered =>
        \A i \in 1..Len(gdf_projected.rows) :
            LET row == gdf_projected.rows[i]
                kept == /\ RetainedIn(gdf_filtered.rows, row.index)
                        /\ pc = "done" => RetainedIn(shp[1].features, row.index)
                dropped == /\ ~RetainedIn(gdf_filtered.rows, row.index)
                           /\ pc = "done" => ~RetainedIn(shp[1].features, row.index)
            IN /\ AtReference(row) => kept
               /\ Beyond(row) => dropped
               /\ AtRadius(row) => dropped

C5_Witness ==
    /\ pc = "done"
    /\ \E i \in 1..Len(gdf_projected.rows) :
          /\ AtReference(gdf_projected.rows[i])
          /\ RetainedIn(shp[1].features, gdf_projected.rows[i].index)
    /\ \E i \in 1..Len(gdf_projected.rows) :
          /\ AtRadius(gdf_projected.rows[i])
          /\ gdf_projected.rows[i].geometry.x = buffer_300ft.x
          /\ ~RetainedIn(shp[1].features, gdf_projected.rows[i].index)

\* C6 (as claimed): an input with a record whose longitude or latitude is
\* null or non-numeric does not crash the stage, and when the stage has
\* exported, no such record is in the output and a valid record is in it
\* exactly if it is within the buffer.
C6_InvalidSkipped ==
    HasInvalid =>
        /\ pc # "crashed"
        /\ pc = "done" =>
              \A i \in 1..Len(df) :
                  RetainedIn(shp[1].features, df[i].index)
                      <=> (~Invalid(Input[i]) /\ ExpectedWithin(df[i]))

\* C7: what is written is a subsequence of the loaded frame (rows of the
\* frame with their attributes unchanged, in the frame's order), holding a
\* row exactly if its geometry is within the buffer, and it is tagged
\* EPSG:4326 when it is written.
C7_ExportIsFilteredSet ==
    /\ pc = "to_file" => gdf_filtered.crs = "EPSG:4326"
    /\ pc = "done" =>
          LET out == shp[1].features IN
          /\ shp[1].crs = "EPSG:4326"
          /\ \A j \in 1..Len(out) :
                /\ out[j].index \in 0..(Len(df) - 1)
                /\ out[j].attrs = df[out[j].index + 1].attrs
          /\ \A j, k \in 1..Len(out) : j < k => out[j].index < out[k].index
          /\ \A i \in 1..Len(df) :
                RetainedIn(out, df[i].index) <=> ExpectedWithin(df[i])

C7_Witness ==
    /\ pc = "done"
    /\ Len(df) = 2
    /\ Len(shp[1].features) = 1
    /\ shp[1].features[1].index = 1
    /\ shp[1].crs = "EPSG:4326"

=============================================================================
